---- MODULE Spec2Model ----
(***************************************************************************)
(* A model of the Drupal JSON API test client (package jsonapi) and of the *)
(* environment accessors it uses (package env).                            *)
(*                                                                         *)
(* Strings are sequences of tokens.  A token is one of the characters the  *)
(* URL code treats specially ("/", "?", "#", " ", "%"), the escape "%20",  *)
(* the scheme prefix "http:", or a word: a run of characters that          *)
(* net/url leaves alone wherever it stands (letters, digits, and for the   *)
(* authority a host:port such as "h:1").                                   *)
(***************************************************************************)
EXTENDS Integers, Sequences, FiniteSets, TLC

VARIABLES env, jar, kind, pc, url, requests, res, body, failures, value,
          target, steps, drupalType, typeAnswer, environ, envAnswer,
          tree, find

\* The state of a client call
clientVars == <<env, jar, kind, pc, url, requests, res, body, failures, value,
                target, steps>>

\* The state of a call of one of DrupalType's accessors
typeVars == <<drupalType, typeAnswer>>

\* The process environment and the answer of one of package env's accessors
envVars == <<environ, envAnswer>>

\* The files under the working directory and a call of FindExpectedJson
fsVars == <<tree, find>>

\* The state of a call of one of the helpers
helperVars == <<typeVars, envVars, fsVars>>

vars == <<clientVars, helperVars>>

(***************************************************************************)
(* Token strings                                                           *)
(***************************************************************************)
Whitespace == {" "}

HasPrefix(s, p) == Len(s) >= Len(p) /\ SubSeq(s, 1, Len(p)) = p

HasSuffix(s, p) ==
    Len(s) >= Len(p) /\ SubSeq(s, Len(s) - Len(p) + 1, Len(s)) = p

\* Does p occur in s as a contiguous run of tokens
Contains(s, p) ==
    \E i \in 1..(Len(s) - Len(p) + 1) : SubSeq(s, i, i + Len(p) - 1) = p

\* Index of the first occurrence of token c in s, 0 when there is none
Index(s, c) ==
    IF \E i \in 1..Len(s) : s[i] = c
    THEN CHOOSE i \in 1..Len(s) : s[i] = c /\ \A j \in 1..(i - 1) : s[j] # c
    ELSE 0

Count(s, c) == Cardinality({i \in 1..Len(s) : s[i] = c})

\* strings.Join(parts, sep)
RECURSIVE Join(_, _)
Join(parts, sep) ==
    IF parts = <<>> THEN <<>>
    ELSE IF Len(parts) = 1 THEN parts[1]
    ELSE parts[1] \o sep \o Join(Tail(parts), sep)

TrimSpaceNoop(s) == s

\* strings.TrimSpace(s): s without its leading and trailing white space
TrimSpace(s) ==
    LET keep == {i \in 1..Len(s) : s[i] \notin Whitespace}
    IN  IF keep = {} THEN <<>>
        ELSE LET lo == CHOOSE i \in keep : \A j \in keep : i <= j
                 hi == CHOOSE i \in keep : \A j \in keep : i >= j
             IN  SubSeq(s, lo, hi)

(***************************************************************************)
(* net/url as the client uses it: url.Parse followed by URL.String()       *)
(***************************************************************************)
\* The one element of a singleton set.  Only({F(x) : x \in {e}}) evaluates e
\* once and hands its value to F.
Only(S) == CHOOSE x \in S : TRUE

SchemeTokens == {"http:"}

NoUrl == [Scheme |-> "", Host |-> <<>>, Path |-> <<>>,
          ForceQuery |-> FALSE, RawQuery |-> <<>>, Fragment |-> <<>>]

ParseError == [err |-> TRUE, u |-> NoUrl]

\* A "%" that is not followed by two hexadecimal digits: no word of the
\* model begins with two hexadecimal digits, the valid escape is the token "%20"
BadEscape(s) == \E i \in 1..Len(s) : s[i] = "%"

\* unescape(s, mode): "%20" decodes to a space
Unescape(s) == [i \in 1..Len(s) |-> IF s[i] = "%20" THEN " " ELSE s[i]]

\* escape(s, mode): a space is written "%20"; words and "/" stay
Escape(s) == [i \in 1..Len(s) |-> IF s[i] = " " THEN "%20" ELSE s[i]]

\* getScheme(rawURL): the scheme and what follows it
SplitScheme(raw) ==
    IF raw # <<>> /\ raw[1] \in SchemeTokens
    THEN [scheme |-> raw[1], rest |-> Tail(raw)]
    ELSE [scheme |-> "", rest |-> raw]

\* A single trailing "?" sets ForceQuery; otherwise the query is what follows
\* the first "?"
SplitQuery(rest) ==
    IF rest # <<>> /\ rest[Len(rest)] = "?" /\ Count(rest, "?") = 1
    THEN [force |-> TRUE, rest |-> SubSeq(rest, 1, Len(rest) - 1), query |-> <<>>]
    ELSE IF Index(rest, "?") = 0
    THEN [force |-> FALSE, rest |-> rest, query |-> <<>>]
    ELSE [force |-> FALSE, rest |-> SubSeq(rest, 1, Index(rest, "?") - 1),
          query |-> SubSeq(rest, Index(rest, "?") + 1, Len(rest))]

\* after "//": the authority runs up to the next "/", the path is the rest
CutAuthority(after) ==
    IF Index(after, "/") = 0
    THEN [host |-> after, path |-> <<>>]
    ELSE [host |-> SubSeq(after, 1, Index(after, "/") - 1),
          path |-> SubSeq(after, Index(after, "/"), Len(after))]

\* The authority is parsed when rest begins with "//" (and, without a scheme,
\* not with "///")
SplitAuthority(scheme, rest) ==
    IF /\ HasPrefix(rest, <<"/", "/">>)
       /\ (scheme # "" \/ ~HasPrefix(rest, <<"/", "/", "/">>))
    THEN Only({CutAuthority(after) : after \in {SubSeq(rest, 3, Len(rest))}})
    ELSE [host |-> <<>>, path |-> rest]

\* parseAuthority and setPath: a space or a percent sign in the host, or a
\* bad escape in the path, is an error
Assemble(scheme, q, a) ==
    IF (\E i \in 1..Len(a.host) : a.host[i] \in {" ", "%", "%20"}) \/ BadEscape(a.path)
    THEN ParseError
    ELSE [err |-> FALSE,
          u   |-> [Scheme |-> scheme, Host |-> a.host, Path |-> Unescape(a.path),
                   ForceQuery |-> q.force, RawQuery |-> q.query, Fragment |-> <<>>]]

\* url.parse(rawURL, false), rawURL holding no "#"
ParseNoFragment(raw) ==
    Only({Only({Only({Assemble(s.scheme, q, a) :
                        a \in {SplitAuthority(s.scheme, q.rest)}}) :
                  q \in {SplitQuery(s.rest)}}) :
            s \in {SplitScheme(raw)}})

\* setFragment(frag) on a parsed URL
WithFragment(p, frag) ==
    IF p.err \/ frag = <<>> THEN p
    ELSE IF BadEscape(frag) THEN ParseError
    ELSE [err |-> FALSE, u |-> [p.u EXCEPT !.Fragment = Unescape(frag)]]

\* url.Parse(rawURL): the fragment is cut off at the first "#" and decoded
UrlParse(raw) ==
    IF Index(raw, "#") = 0 THEN ParseNoFragment(raw)
    ELSE Only({WithFragment(p, SubSeq(raw, Index(raw, "#") + 1, Len(raw))) :
                 p \in {Only({ParseNoFragment(m) :
                                m \in {SubSeq(raw, 1, Index(raw, "#") - 1)}})}})

\* (*URL).String()
UrlString(u) ==
    LET scheme == IF u.Scheme # "" THEN <<u.Scheme>> ELSE <<>>
        auth   == IF (u.Scheme # "" \/ u.Host # <<>>) /\ (u.Host # <<>> \/ u.Path # <<>>)
                  THEN <<"/", "/">> \o u.Host ELSE <<>>
        sep    == IF u.Path # <<>> /\ u.Path[1] # "/" /\ u.Host # <<>> THEN <<"/">> ELSE <<>>
        query  == IF u.ForceQuery \/ u.RawQuery # <<>> THEN <<"?">> \o u.RawQuery ELSE <<>>
        frag   == IF u.Fragment # <<>> THEN <<"#">> \o Escape(u.Fragment) ELSE <<>>
    IN  scheme \o auth \o sep \o Escape(u.Path) \o query \o frag

(***************************************************************************)
(* package env                                                             *)
(***************************************************************************)
Unset == [set |-> FALSE, val |-> <<>>]

SetTo(v) == [set |-> TRUE, val |-> v]

GetEnvOrEmptyIsUnset(e, defValue) ==
    IF e.set /\ e.val # <<>> THEN e.val ELSE defValue

\* getEnv(envVar, false) followed by GetEnvOr's choice
GetEnvOr(e, defValue) == IF e.set THEN e.val ELSE defValue

BaseUrlOrIgnoringEnv(e, defaultValue) == defaultValue

\* BaseUrlOr(defaultValue), e being the value of DRUPAL_BASE_URL
BaseUrlOr(e, defaultValue) == GetEnvOr(e, defaultValue)

\* The names of the variables the accessors read
drupalBaseUrl == "DRUPAL_BASE_URL"

testBasedir == "DRUPAL_TEST_BASEDIR"

assetsBaseUrl == "BASE_ASSETS_URL"

\* TestBasedirOr(defaultValue), e being the value of DRUPAL_TEST_BASEDIR
TestBasedirOr(e, defaultValue) == GetEnvOr(e, defaultValue)

\* AssetsBaseUrlOr(defaultValue), e being the value of BASE_ASSETS_URL
AssetsBaseUrlOr(e, defaultValue) == GetEnvOr(e, defaultValue)

\* getEnv(envVar, require), e being what os.LookupEnv(envVar) finds: the
\* value and whether the variable is set, or a panic when it is required and
\* not set
getEnv(e, require) == [panic |-> ~e.set /\ require, val |-> e.val, ok |-> e.set]

requireEnvNonEmpty(e) == [panic |-> ~e.set \/ e.val = <<>>, val |-> e.val]

\* requireEnv(envVar): val, _ := getEnv(envVar, true)
requireEnv(e) ==
    Only({[panic |-> r.panic, val |-> r.val] : r \in {getEnv(e, TRUE)}})

\* BaseUrl(), TestBasedir() and AssetsBaseUrl(), e being the value of the
\* variable each of them requires
BaseUrl(e) == requireEnv(e)

TestBasedir(e) == requireEnv(e)

AssetsBaseUrl(e) == requireEnv(e)

\* Decimal digits, and a run of digits that names a number beyond the range
\* of a 64-bit int
Digits == {"0", "1", "7"}

OutOfRange == "99999999999999999999"

DigitValue(c) == IF c = "0" THEN 0 ELSE IF c = "1" THEN 1 ELSE 7

RECURSIVE DecimalValue(_)
DecimalValue(ds) ==
    IF ds = <<>> THEN 0
    ELSE 10 * DecimalValue(SubSeq(ds, 1, Len(ds) - 1)) + DigitValue(ds[Len(ds)])

\* The digits of s, after its sign if it has one
Unsigned(s) == IF s # <<>> /\ s[1] \in {"+", "-"} THEN Tail(s) ELSE s

\* strconv.Atoi(s): an optional sign and at least one digit, nothing else
\* (ErrSyntax); a number beyond the range of int is an error as well (ErrRange)
Atoi(s) ==
    Only({IF ds = <<>> \/ \E i \in 1..Len(ds) : ds[i] \notin Digits \cup {OutOfRange}
          THEN [err |-> TRUE, why |-> "ErrSyntax", n |-> 0]
          ELSE IF \E i \in 1..Len(ds) : ds[i] = OutOfRange
          THEN [err |-> TRUE, why |-> "ErrRange", n |-> 0]
          ELSE [err |-> FALSE, why |-> "",
                n |-> IF s[1] = "-" THEN 0 - DecimalValue(ds) ELSE DecimalValue(ds)] :
            ds \in {Unsigned(s)}})

\* strconv.ParseBool(str): one of the twelve spellings, anything else is an
\* error
ParseBool(s) ==
    IF s \in {<<"1">>, <<"t">>, <<"T">>, <<"TRUE">>, <<"true">>, <<"True">>}
    THEN [err |-> FALSE, b |-> TRUE]
    ELSE IF s \in {<<"0">>, <<"f">>, <<"F">>, <<"FALSE">>, <<"false">>, <<"False">>}
    THEN [err |-> FALSE, b |-> FALSE]
    ELSE [err |-> TRUE, b |-> FALSE]

GetEnvOrIntLenient(e, defValue) ==
    Only({IF ~r.ok THEN [panic |-> FALSE, val |-> defValue]
          ELSE Only({[panic |-> FALSE, val |-> IF a.err THEN defValue ELSE a.n] :
                       a \in {Atoi(r.val)}}) :
            r \in {getEnv(e, FALSE)}})

\* GetEnvOrInt(envVar, defValue): the default when the variable is not set,
\* otherwise its value as an integer, or a panic when Atoi fails
GetEnvOrInt(e, defValue) ==
    Only({IF ~r.ok THEN [panic |-> FALSE, val |-> defValue]
          ELSE Only({[panic |-> a.err, val |-> a.n] : a \in {Atoi(r.val)}}) :
            r \in {getEnv(e, FALSE)}})

\* GetEnvOrBool(envVar, defValue): the default when the variable is not set,
\* otherwise its value as a bool, or a panic when ParseBool fails
GetEnvOrBool(e, defValue) ==
    Only({IF ~r.ok THEN [panic |-> FALSE, val |-> defValue]
          ELSE Only({[panic |-> a.err, val |-> a.b] : a \in {ParseBool(r.val)}}) :
            r \in {getEnv(e, FALSE)}})

(***************************************************************************)
(* JsonApiUrl.String()                                                     *)
(***************************************************************************)
NoString == [nil |-> TRUE, s |-> <<>>]

Str(s) == [nil |-> FALSE, s |-> s]

\* assert.NotEmpty on the three required fields: each empty one records a
\* failure on T and execution goes on
RequiredFieldFailures(d) ==
    {f \in {"BaseUrl", "DrupalEntity", "DrupalBundle"} : d[f] = <<>>}

KeepTrailingSlash(b) == b

\* if strings.HasSuffix(baseUrl, "/") { baseUrl = baseUrl[:len(baseUrl)-1] }
StripTrailingSlash(b) ==
    IF HasSuffix(b, <<"/">>) THEN SubSeq(b, 1, Len(b) - 1) ELSE b

\* strings.Join([]string{baseUrl, "jsonapi", moo.DrupalEntity, moo.DrupalBundle}, "/")
JoinedUrl(d, e) ==
    Only({Join(<<b, <<"jsonapi">>, d.DrupalEntity, d.DrupalBundle>>, <<"/">>) :
            b \in {StripTrailingSlash(BaseUrlOr(e, d.BaseUrl))}})

SimpleFilterFirst(d) ==
    IF d.Filter # <<>> THEN "simple" ELSE IF d.RawFilter # <<>> THEN "raw" ELSE "none"

NeverWithoutFilter(d) == IF d.RawFilter # <<>> THEN "raw" ELSE "simple"

\* The branch taken at the filter selection
FilterCase(d) ==
    IF d.RawFilter # <<>> THEN "raw" ELSE IF d.Filter # <<>> THEN "simple" ELSE "none"

SimpleFilterWithoutValue(d) == <<"filter", "[">> \o d.Filter \o <<"]", "=">>

\* fmt.Sprintf("filter[%s]=%s", moo.Filter, moo.Value)
SimpleFilterText(d) == <<"filter", "[">> \o d.Filter \o <<"]", "=">> \o d.Value

\* The second url.Parse, of u.String() + "?" + the filter; without a filter u
\* stays the URL of the first
ParseWithFilter(d, p1, s1) ==
    IF FilterCase(d) = "raw"
    THEN Only({UrlParse(r) : r \in {s1 \o <<"?">> \o d.RawFilter}})
    ELSE IF FilterCase(d) = "simple"
    THEN Only({UrlParse(r) : r \in {s1 \o <<"?">> \o SimpleFilterText(d)}})
    ELSE p1

\* return u.String(), which panics on the nil *url.URL of a failed url.Parse
\* after assert.Nil has recorded the error
Returned(required, p2) ==
    IF p2.err
    THEN [failures |-> required \cup {"url.Parse"}, panic |-> TRUE, result |-> NoString]
    ELSE [failures |-> required, panic |-> FALSE, result |-> Str(UrlString(p2.u))]

\* The whole of String(): the failures it records on T, whether it panics
\* and the string it returns
StringOf(d, e) ==
    Only({IF p1.err THEN Returned(RequiredFieldFailures(d), p1)
          ELSE Only({Returned(RequiredFieldFailures(d), p2) :
                       p2 \in {Only({ParseWithFilter(d, p1, s1) :
                                       s1 \in {UrlString(p1.u)}})}}) :
            p1 \in {Only({UrlParse(j) : j \in {JoinedUrl(d, e)}})}})

(***************************************************************************)
(* JSON payloads and JsonApiResponse.UnmarshalJSON                         *)
(***************************************************************************)
Obj(id) == [t |-> "object", id |-> id, elems |-> <<>>]

Scalar(t) == [t |-> t, id |-> "", elems |-> <<>>]

Arr(es) == [t |-> "array", id |-> "", elems |-> es]

\* A nil map: the zero value of an element of make([]map[string]interface{}, n)
NilMap == [t |-> "nilmap", id |-> "", elems |-> <<>>]

\* A slice: nil, or its elements
NilData == [nil |-> TRUE, items |-> <<>>]

Slice(items) == [nil |-> FALSE, items |-> items]

Malformed == [syntax |-> "malformed", top |-> "none", hasData |-> FALSE,
              data |-> Scalar("null"), meta |-> FALSE]

\* Valid JSON whose top level is not an object (an array, a string, a number)
NotAnObject == [syntax |-> "valid", top |-> "other", hasData |-> FALSE,
                data |-> Scalar("null"), meta |-> FALSE]

\* {"jsonapi": {...}} without a "data" key
WithoutData == [syntax |-> "valid", top |-> "object", hasData |-> FALSE,
                data |-> Scalar("null"), meta |-> TRUE]

\* {"jsonapi": {...}, "data": d} when meta, {"data": d} otherwise
WithData(d, meta) == [syntax |-> "valid", top |-> "object", hasData |-> TRUE,
                      data |-> d, meta |-> meta]

ArrayCaseReversed(es) ==
    [err |-> FALSE, panic |-> FALSE,
     Data |-> [nil |-> FALSE, items |-> [i \in 1..Len(es) |-> es[Len(es) + 1 - i]]]]

\* The array case of the type switch: make(.., len(e)) and the loop that
\* stores v.(map[string]interface{}) for each element, in order.  The
\* unchecked type assertion panics at the first element that is not an object,
\* leaving the elements before it stored and the others nil.
ArrayCase(es) ==
    LET bad == {i \in 1..Len(es) : es[i].t # "object"}
    IN  IF bad = {}
        THEN [err |-> FALSE, panic |-> FALSE, Data |-> Slice(es)]
        ELSE LET k == CHOOSE i \in bad : \A j \in bad : i <= j
             IN  [err |-> FALSE, panic |-> TRUE,
                  Data |-> Slice([i \in 1..Len(es) |-> IF i < k THEN es[i] ELSE NilMap])]

ObjectCaseUnwrapped(e) == [err |-> FALSE, panic |-> FALSE, Data |-> Slice(<<>>)]

\* The object case of the type switch: a one-element slice holding the object
ObjectCase(e) == [err |-> FALSE, panic |-> FALSE, Data |-> Slice(<<e>>)]

UnmarshalJSONAppending(old, b) ==
    IF b.syntax # "valid" \/ b.top # "object"
    THEN [err |-> TRUE, panic |-> FALSE, Data |-> old]
    ELSE IF ~b.hasData
    THEN [err |-> TRUE, panic |-> FALSE, Data |-> old]
    ELSE IF b.data.t = "array"
    THEN [ArrayCase(b.data.elems) EXCEPT !.Data.items = old.items \o @]
    ELSE IF b.data.t = "object"
    THEN [ObjectCase(b.data) EXCEPT !.Data.items = old.items \o @]
    ELSE [err |-> TRUE, panic |-> FALSE, Data |-> old]

\* (*JsonApiResponse).UnmarshalJSON(b), old being the receiver's Data before
UnmarshalJSON(old, b) ==
    IF b.syntax # "valid" \/ b.top # "object"
    THEN [err |-> TRUE, panic |-> FALSE, Data |-> old]
    ELSE IF ~b.hasData
    THEN [err |-> TRUE, panic |-> FALSE, Data |-> old]
    ELSE IF b.data.t = "array" THEN ArrayCase(b.data.elems)
    ELSE IF b.data.t = "object" THEN ObjectCase(b.data)
    ELSE [err |-> TRUE, panic |-> FALSE, Data |-> old]

\* json.Unmarshal(body, value) for a value that implements json.Unmarshaler:
\* the syntax check comes first, then value.UnmarshalJSON(body)
JsonUnmarshal(old, b) ==
    IF b.syntax # "valid" THEN [err |-> TRUE, panic |-> FALSE, Data |-> old]
    ELSE UnmarshalJSON(old, b)

MarshalledWithTheRest(v) ==
    [key |-> "Data", val |-> IF v.nil THEN Scalar("null") ELSE Arr(v.items),
     others |-> IF ~body.nil /\ body.b.meta THEN {"jsonapi"} ELSE {}]

\* json.Marshal(jar): the exported field Data carries no tag, so the one key
\* written is "Data"; a nil slice is written as null.  Data is the only field
\* of the structure, so no other key is written.
Marshalled(v) ==
    [key |-> "Data", val |-> IF v.nil THEN Scalar("null") ELSE Arr(v.items),
     others |-> {}]

\* encoding/json matches an object key to a struct field by its tag, ignoring
\* case
FoldCase(k) == IF k = "Data" THEN "data" ELSE k

IntoTypedCaseSensitive(old, m) ==
    IF m.key # "data" THEN old
    ELSE IF m.val.t = "array" THEN Slice(m.val.elems)
    ELSE NilData

\* json.Unmarshal(b, v) for v a structure with a slice field tagged
\* json:"data": the key is matched ignoring case, null leaves a nil slice
IntoTyped(old, m) ==
    IF FoldCase(m.key) # "data" THEN old
    ELSE IF m.val.t = "array" THEN Slice(m.val.elems)
    ELSE NilData

\* json.Unmarshal(b, v) for v a *JsonApiResponse: its UnmarshalJSON looks the
\* key "data" up in a map, where case counts
IntoEnvelope(old, m) ==
    UnmarshalJSON(old, [syntax |-> "valid", top |-> "object",
                        hasData |-> (m.key = "data"), data |-> m.val,
                        meta |-> FALSE]).Data

\* json.Unmarshal(body, v) of the raw response body for the same typed
\* structure: only an array (or null) can be stored in the slice field; an
\* object or a scalar under "data" is a type error that leaves the field as
\* it was, as does a body that is not a JSON object or has no "data"
DecodedDirectly(old, b) ==
    IF b.syntax # "valid" \/ b.top # "object" \/ ~b.hasData THEN old
    ELSE IF b.data.t = "array" THEN Slice(b.data.elems)
    ELSE IF b.data.t = "null" THEN NilData
    ELSE old

\* json.Unmarshal(b, v) for v a structure whose field tagged json:"data" is
\* not a slice (a string, say): an array cannot be stored in it and the field
\* is left as it was, null is skipped
IntoMistyped(old, m) == old

\* The caller's structure: typed, typed with a field that cannot hold the
\* elements, or a generic *JsonApiResponse
TargetKinds == {"typed", "mistyped", "envelope"}

\* A target before it is used: its field for "data", and the state of a field
\* for the top-level key "jsonapi" ("zero", "prior" for a value the caller
\* put there, "body" for the block of a response body)
NewTarget(k) == [kind |-> k, data |-> NilData, jsonapi |-> "zero"]

\* A typed target whose field for "jsonapi" the caller has filled
FilledTarget == [NewTarget("typed") EXCEPT !.jsonapi = "prior"]

\* The field of a typed structure tagged json:"jsonapi" after json.Unmarshal
\* of the object m: set when m holds the key, left alone otherwise
IntoTypedJsonapi(old, m) == IF "jsonapi" \in m.others THEN "body" ELSE old

ProjectedWhenSingle(t, v) ==
    IF kind = "GetSingle" /\ Len(v.items) # 1 THEN t
    ELSE [t EXCEPT !.data = IF t.kind = "envelope"
                            THEN IntoEnvelope(t.data, Marshalled(v))
                            ELSE IF t.kind = "mistyped" THEN t.data
                            ELSE IntoTyped(t.data, Marshalled(v)),
                   !.jsonapi = IF t.kind = "envelope" THEN @
                               ELSE IntoTypedJsonapi(@, Marshalled(v))]

\* jar.To(v): what json.Unmarshal(b, v) leaves in v
Projected(t, v) ==
    [t EXCEPT !.data = IF t.kind = "envelope" THEN IntoEnvelope(t.data, Marshalled(v))
                       ELSE IF t.kind = "mistyped" THEN IntoMistyped(t.data, Marshalled(v))
                       ELSE IntoTyped(t.data, Marshalled(v)),
              !.jsonapi = IF t.kind = "envelope" THEN @
                          ELSE IntoTypedJsonapi(@, Marshalled(v))]

\* The error json.Unmarshal(b, v) returns in To: the one of v.UnmarshalJSON
\* for a *JsonApiResponse, a type error for an array that meets a field
\* which is not a slice, none otherwise
UnmarshalError(t, v) ==
    IF t.kind = "envelope"
    THEN \E m \in {Marshalled(v)} :
             UnmarshalJSON(t.data, [syntax |-> "valid", top |-> "object",
                                    hasData |-> (m.key = "data"), data |-> m.val,
                                    meta |-> FALSE]).err
    ELSE IF t.kind = "mistyped" THEN Marshalled(v).val.t = "array"
    ELSE FALSE

ReportedOnT(err) == IF err THEN {"project"} ELSE {}

\* json.Unmarshal(b, v) as a statement of its own: the error it returns is
\* assigned to nothing and nothing is recorded on T
Discarded(err) == {}

(***************************************************************************)
(* DrupalType                                                              *)
(***************************************************************************)
\* The separator of entity and bundle in a type label, "--"
Separator == <<"-", "-">>

\* strings.Split(s, sep): s cut at each occurrence of sep, found from the left
\* and not overlapping; a string without sep is the one part
RECURSIVE Split(_, _)
Split(s, sep) ==
    IF ~Contains(s, sep) THEN <<s>>
    ELSE LET i == CHOOSE k \in 1..(Len(s) - Len(sep) + 1) :
                      /\ SubSeq(s, k, k + Len(sep) - 1) = sep
                      /\ \A j \in 1..(k - 1) : SubSeq(s, j, j + Len(sep) - 1) # sep
         IN  <<SubSeq(s, 1, i - 1)>> \o Split(SubSeq(s, i + Len(sep), Len(s)), sep)

\* What an accessor answers: a string, or a run-time panic
Answer(s) == [panic |-> FALSE, s |-> s]

Panic == [panic |-> TRUE, s |-> <<>>]

EntityWhole(t) == Answer(t)

\* (t DrupalType) Entity(): strings.Split(string(t), "--")[0]
Entity(t) == Answer(Split(t, Separator)[1])

BundleOrEmpty(t) ==
    Only({IF Len(parts) < 2 THEN Answer(<<>>) ELSE Answer(parts[2]) :
            parts \in {Split(t, Separator)}})

\* (t DrupalType) Bundle(): strings.Split(string(t), "--")[1], an index out
\* of range when the split has one part
Bundle(t) ==
    Only({IF Len(parts) < 2 THEN Panic ELSE Answer(parts[2]) :
            parts \in {Split(t, Separator)}})

(***************************************************************************)
(* package fs: FindExpectedJson                                            *)
(*                                                                         *)
(* A name is a string; a path is the sequence of the names of its          *)
(* elements, the empty path being the working directory ".".  A tree is    *)
(* the set of the directories and the set of the other files under the     *)
(* working directory.                                                      *)
(***************************************************************************)
\* string(os.PathSeparator)
PathSeparator == <<"/">>

\* The names in use, in the order filepath.Walk reads a directory: sorted
NameOrder == <<<<"a">>, <<"b">>, <<"f.json">>, <<"x">>>>

WorkingDir == <<>>

Parent(p) == SubSeq(p, 1, Len(p) - 1)

IsDir(t, p) == p = WorkingDir \/ p \in t.dirs

\* info.Name(): the base name of the entry, "." for the working directory
BaseName(p) == IF p = WorkingDir THEN <<".">> ELSE p[Len(p)]

\* strings.Split(path, string(os.PathSeparator))
PathElements(p) == IF p = WorkingDir THEN <<<<".">>>> ELSE p

pathContainsAlways(p, candidates) == TRUE

\* pathContains(path, candidates): some element of the path is a candidate
pathContains(p, candidates) ==
    \E i \in 1..Len(PathElements(p)) :
        \E j \in 1..Len(candidates) : PathElements(p)[i] = candidates[j]

\* The entries of directory p, sorted by name
ReadDir(t, p) ==
    LET Present(q) == q \in t.dirs \cup t.files
    IN  SelectSeq([i \in 1..Len(NameOrder) |-> Append(p, NameOrder[i])], Present)

\* The first filepath.Walk, from ".": a directory whose path holds a search
\* directory is a base directory and is not descended into (SkipDir)
RECURSIVE CollectFrom(_, _, _), CollectAll(_, _, _)
CollectFrom(t, p, searchdirs) ==
    IF ~IsDir(t, p) THEN <<>>
    ELSE IF pathContains(p, searchdirs) THEN <<p>>
    ELSE CollectAll(t, ReadDir(t, p), searchdirs)

CollectAll(t, ps, searchdirs) ==
    IF ps = <<>> THEN <<>>
    ELSE CollectFrom(t, Head(ps), searchdirs) \o CollectAll(t, Tail(ps), searchdirs)

\* The paths filepath.Walk(p, fn) hands to fn when fn returns nil: p, then
\* the entries of p in order, each followed by what lies under it
RECURSIVE WalkOrder(_, _), WalkEach(_, _)
WalkOrder(t, p) ==
    <<p>> \o (IF IsDir(t, p) THEN WalkEach(t, ReadDir(t, p)) ELSE <<>>)

WalkEach(t, ps) ==
    IF ps = <<>> THEN <<>>
    ELSE WalkOrder(t, Head(ps)) \o WalkEach(t, Tail(ps))

\* expectedJsonFile: the empty string, or a path
NoFile == [empty |-> TRUE, path |-> WorkingDir]

File(p) == [empty |-> FALSE, path |-> p]

\* The second filepath.Walk, from basedir: the first entry whose name is
\* name is stored and the error returned ends this walk; without such an
\* entry expectedJsonFile keeps what it held
WalkBasedir(t, basedir, name, before) ==
    Only({IF \E i \in 1..Len(w) : BaseName(w[i]) = name
          THEN File(w[CHOOSE i \in 1..Len(w) :
                         /\ BaseName(w[i]) = name
                         /\ \A j \in 1..(i - 1) : BaseName(w[j]) # name])
          ELSE before :
            w \in {WalkOrder(t, basedir)}})

(***************************************************************************)
(* Inputs                                                                  *)
(***************************************************************************)
\* The longest "data" array a server answers with
MaxData == 2

\* http.StatusOK, the status GetResourceWithBasicAuth asserts
StatusOK == 200

Statuses == {StatusOK, 404}

HostH == <<"http:", "/", "/", "h:1">>

HostE == <<"http:", "/", "/", "e:2">>

\* A base URL written without its scheme
NoScheme == <<"host">>

\* Arrays of at most n elements drawn from es
RECURSIVE ArraysUpTo(_, _)
ArraysUpTo(es, n) ==
    IF n = 0 THEN {<<>>}
    ELSE LET shorter == ArraysUpTo(es, n - 1)
         IN  shorter \cup {Append(a, e) : a \in {x \in shorter : Len(x) = n - 1}, e \in es}

Elements == {Obj("o1"), Obj("o2"), Scalar("string")}

DataValues ==
    {Scalar("null"), Scalar("string"), Scalar("number"), Scalar("bool"), Obj("o1")}
        \cup {Arr(a) : a \in ArraysUpTo(Elements, MaxData)}

\* The response bodies a server may send
Bodies ==
    {Malformed, NotAnObject, WithoutData} \cup {WithData(d, TRUE) : d \in DataValues}

Usernames == {<<>>, <<" ", " ">>, <<"admin">>, <<" ", "admin">>}

Passwords == {<<>>, <<"moo">>}

\* Descriptors of the calls that go to the server
CallDescriptors ==
    [BaseUrl : {<<>>, HostH, NoScheme}, DrupalEntity : {<<>>, <<"request">>},
     DrupalBundle : {<<>>, <<"withauth">>}, Filter : {<<"name">>},
     Value : {<<"moo">>}, RawFilter : {<<>>},
     Username : Usernames, Password : Passwords]

\* Descriptors String() is applied to
UrlDescriptors ==
    [BaseUrl : {<<>>, <<"/">>, HostH, HostH \o <<"/">>, HostH \o <<"/", "/">>},
     DrupalEntity : {<<>>, <<"media">>, <<"me", " ", "dia">>, <<"me", "%", "zz">>},
     DrupalBundle : {<<>>, <<"document">>},
     Filter : {<<>>, <<"id">>},
     Value : {<<>>, <<"abc">>, <<"a", " ", "b">>, <<"a", "#", "b", " ", "c">>},
     RawFilter : {<<>>, <<"f", "=", "v">>, <<"f", "=", "v", " ", "w">>,
                  <<"f", "=", "v", "#", "x", " ", "y">>},
     Username : {<<>>}, Password : {<<>>}]

\* Values of DRUPAL_BASE_URL in the process environment: unset, set to the
\* empty string, set to a base
Environments == {Unset, SetTo(<<>>), SetTo(HostE), SetTo(HostE \o <<"/">>)}

\* The longest type label, in tokens
MaxLabel == 5

RECURSIVE StringsUpTo(_, _)
StringsUpTo(tokens, n) ==
    IF n = 0 THEN {<<>>}
    ELSE LET shorter == StringsUpTo(tokens, n - 1)
         IN  shorter \cup {Append(a, c) : a \in {x \in shorter : Len(x) = n - 1},
                                          c \in tokens}

\* Type labels: hyphens and words in any order, "node--page" and "user" and
\* the empty string among them
Labels == StringsUpTo({"-", "node", "page"}, MaxLabel)

\* The variables of the process environment
EnvNames == {drupalBaseUrl, testBasedir, assetsBaseUrl}

\* Values a variable is set to: empty, numbers, booleans, neither
EnvValues ==
    {<<>>, <<"1">>, <<"-", "1", "0">>, <<"+", "0", "7">>, <<"true">>, <<"yes">>,
     <<"1", " ">>, <<OutOfRange>>}

EnvStates == {Unset} \cup {SetTo(v) : v \in EnvValues}

\* Defaults the callers pass
StringDefaults == {<<>>, <<"fallback">>}

IntDefaults == {0, 42}

\* Directories and files a working directory may hold
DirCandidates ==
    {<<<<"a">>>>, <<<<"b">>>>, <<<<"x">>>>, <<<<"a">>, <<"x">>>>, <<<<"b">>, <<"x">>>>}

FileCandidates ==
    DirCandidates \cup
        {<<<<"f.json">>>>, <<<<"a">>, <<"f.json">>>>, <<<<"b">>, <<"f.json">>>>,
         <<<<"x">>, <<"f.json">>>>, <<<<"a">>, <<"x">>, <<"f.json">>>>,
         <<<<"b">>, <<"x">>, <<"f.json">>>>}

\* A tree: no entry is both a directory and a file, and every entry lies in
\* a directory
Trees ==
    {t \in [dirs : SUBSET DirCandidates, files : SUBSET FileCandidates] :
        /\ t.dirs \cap t.files = {}
        /\ \A q \in t.dirs \cup t.files : IsDir(t, Parent(q))}

\* The names searched for, one of them holding a path separator
FileNames == {<<"f.json">>, <<"x">>, <<"foo", "/", "bar">>}

\* The search directories supplied
SearchDirs ==
    {<<>>, <<<<"x">>>>, <<<<"b">>, <<"x">>>>, <<<<".">>>>, <<<<"foo", "/", "bar">>>>}

(***************************************************************************)
(* State                                                                   *)
(***************************************************************************)
NoAuth == [present |-> FALSE, user |-> <<>>, pass |-> <<>>]

BasicAuth(u, p) == [present |-> TRUE, user |-> u, pass |-> p]

\* A nil *http.Response
NoResponse == [nil |-> TRUE, status |-> 0, body |-> Malformed]

NoBody == [nil |-> TRUE, b |-> Malformed]

\* The state before a call: nothing built, sent, read or decoded; value is
\* the fresh &JsonApiResponse{}
Fresh ==
    /\ pc = "call"
    /\ url = NoString
    /\ requests = <<>>
    /\ res = NoResponse
    /\ body = NoBody
    /\ failures = {}
    /\ value = NilData
    /\ steps = {}

\* An accessor that has not been called
NotCalled == [op |-> "none", panic |-> FALSE, s |-> <<>>]

\* An accessor of package env that has not been called
NotAsked == [op |-> "none", var |-> "", def |-> <<>>, panic |-> FALSE, val |-> <<>>]

NoType ==
    /\ drupalType = <<>>
    /\ typeAnswer = NotCalled

NoEnv ==
    /\ environ = [n \in EnvNames |-> Unset]
    /\ envAnswer = NotAsked

\* FindExpectedJson before its first statement
Finding(name, searchdirs) ==
    [name |-> name, searchdirs |-> searchdirs, pc |-> "call", walks |-> 0,
     basedirs |-> <<>>, next |-> 1, expectedJsonFile |-> NoFile]

NoFs ==
    /\ tree = [dirs |-> {}, files |-> {}]
    /\ find = [Finding(<<>>, <<>>) EXCEPT !.pc = "none"]

\* No helper is in use
NoHelper == NoType /\ NoEnv /\ NoFs

\* No client call is in use
NoClient ==
    /\ env = Unset
    /\ jar = [BaseUrl |-> <<>>, DrupalEntity |-> <<>>, DrupalBundle |-> <<>>,
              Filter |-> <<>>, Value |-> <<>>, RawFilter |-> <<>>,
              Username |-> <<>>, Password |-> <<>>]
    /\ kind = "none"
    /\ target = NewTarget("typed")
    /\ Fresh

\* A test calls Get, GetSingle or GetResourceWithBasicAuth on a descriptor
Init ==
    /\ env \in {Unset, SetTo(HostE)}
    /\ jar \in CallDescriptors
    /\ kind \in {"Get", "GetSingle", "Resource"}
    /\ target \in {NewTarget(k) : k \in TargetKinds} \cup {FilledTarget}
    /\ kind = "Resource" => target = NewTarget("typed")
    /\ Fresh
    /\ NoHelper

\* A caller asks a descriptor for its URL
InitUrl ==
    /\ env \in Environments
    /\ jar \in UrlDescriptors
    /\ kind = "String"
    /\ target = NewTarget("typed")
    /\ Fresh
    /\ NoHelper

\* A test holds the type label of a resource
InitType ==
    /\ NoClient
    /\ NoEnv
    /\ NoFs
    /\ drupalType \in Labels
    /\ typeAnswer = NotCalled

\* A process with some of the variables set
InitEnv ==
    /\ NoClient
    /\ NoType
    /\ NoFs
    /\ environ \in [EnvNames -> EnvStates]
    /\ envAnswer = NotAsked

\* A test looks for a file under its working directory
InitFs ==
    /\ NoClient
    /\ NoType
    /\ NoEnv
    /\ tree \in Trees
    /\ \E name \in FileNames, searchdirs \in SearchDirs :
           find = Finding(name, searchdirs)

(***************************************************************************)
(* Steps of a call                                                         *)
(***************************************************************************)
\* jar.String(), evaluated as the argument of GetResource(WithBasicAuth)
BuildUrl ==
    /\ pc = "call"
    /\ \E r \in {StringOf(jar, env)} :
           /\ url' = r.result
           /\ failures' = failures \cup r.failures
           /\ pc' = IF r.panic THEN "panicked"
                    ELSE IF kind = "String" THEN "done" ELSE "built"
    /\ steps' = steps \cup {"String"}
    /\ UNCHANGED <<env, jar, kind, requests, res, body, value, target>>
    /\ UNCHANGED helperVars

CredentialsKept ==
    IF Len(TrimSpace(jar.Username)) > 0 THEN <<jar.Username, jar.Password>>
    ELSE IF requests # <<>> /\ requests[Len(requests)].auth.present
         THEN <<requests[Len(requests)].auth.user, requests[Len(requests)].auth.pass>>
         ELSE <<<<>>, <<>>>>

\* The username and password the caller hands to GetResourceWithBasicAuth:
\* Get and GetSingle call GetResource, that is ("", ""), for a blank username
Credentials ==
    IF kind \in {"Get", "GetSingle"} /\ Len(TrimSpace(jar.Username)) = 0
    THEN <<<<>>, <<>>>>
    ELSE <<jar.Username, jar.Password>>

\* req.SetBasicAuth(username, password) when the trimmed username is not empty
AuthOf(username, password) ==
    IF Len(TrimSpace(username)) > 0 THEN BasicAuth(username, password) ELSE NoAuth

IssuedAndRetried(log, req) == Append(Append(log, req), req)

\* httpClient.Do(req), called once and outside any loop: the request joins
\* the log of what went to the server
Issued(log, req) == Append(log, req)

\* http.NewRequest, the Authorization header, httpClient.Do(req) and the
\* assert.Nil(t, err) after it.  A URL without a scheme is refused by the
\* client before anything is sent; otherwise the request is issued and either
\* the transport fails (a nil response) or the server answers.
SendRequest ==
    /\ pc = "built"
    /\ \E req \in {[url |-> url.s, auth |-> AuthOf(Credentials[1], Credentials[2])]} :
           IF SplitScheme(url.s).scheme = ""
           THEN /\ requests' = requests
                /\ res' = NoResponse
                /\ failures' = failures \cup {"transport"}
           ELSE /\ requests' = Issued(requests, req)
                /\ \/ /\ res' = NoResponse
                      /\ failures' = failures \cup {"transport"}
                   \/ /\ \E st \in Statuses, b \in Bodies :
                            res' = [nil |-> FALSE, status |-> st, body |-> b]
                      /\ failures' = failures
    /\ steps' = steps \cup {"Do"}
    /\ pc' = "responded"
    /\ UNCHANGED <<env, jar, kind, url, body, value, target>>
    /\ UNCHANGED helperVars

\* assert.Equal(t, 200, res.StatusCode, ...): res.StatusCode is evaluated
\* whatever the assertion before it recorded, and panics on a nil response
CheckStatus ==
    /\ pc = "responded"
    /\ steps' = steps \cup {"StatusCode"}
    /\ IF res.nil
       THEN /\ pc' = "panicked"
            /\ failures' = failures
       ELSE /\ pc' = "checked"
            /\ failures' = failures \cup (IF res.status # StatusOK THEN {"status"} ELSE {})
    /\ UNCHANGED <<env, jar, kind, url, requests, res, body, value, target>>
    /\ UNCHANGED helperVars

\* ioutil.ReadAll(res.Body) and its assert.Nil; a failed read leaves a
\* truncated body.  GetResourceWithBasicAuth returns here.
ReadBody ==
    /\ pc = "checked"
    /\ \E ok \in BOOLEAN :
          /\ body' = [nil |-> FALSE, b |-> IF ok THEN res.body ELSE Malformed]
          /\ failures' = failures \cup (IF ok THEN {} ELSE {"read"})
    /\ steps' = steps \cup {"read"}
    /\ pc' = IF kind = "Resource" THEN "done" ELSE "read"
    /\ UNCHANGED <<env, jar, kind, url, requests, res, value, target>>
    /\ UNCHANGED helperVars

\* UnmarshalResponse: json.Unmarshal(body, value) and its assert.Nil
Unmarshal ==
    /\ pc = "read"
    /\ \E r \in {JsonUnmarshal(value, body.b)} :
           /\ value' = r.Data
           /\ failures' = failures \cup (IF r.err THEN {"decode"} ELSE {})
           /\ pc' = IF r.panic THEN "panicked" ELSE "decoded"
    /\ steps' = steps \cup {"decode"}
    /\ UNCHANGED <<env, jar, kind, url, requests, res, body, target>>
    /\ UNCHANGED helperVars

AtMostOneElement(v) == IF Len(v.items) > 1 THEN {"cardinality"} ELSE {}

\* The callback of UnmarshalSingleResponse: assert.Equal(t, 1, len(value.Data))
ExactlyOneElement(v) == IF Len(v.items) # 1 THEN {"cardinality"} ELSE {}

\* if responseAssertions != nil { responseAssertions(value) }: GetSingle
\* passes the assertion that len(value.Data) is 1, Get passes nil
ResponseAssertions ==
    /\ pc = "decoded"
    /\ IF kind = "GetSingle"
       THEN /\ failures' = failures \cup ExactlyOneElement(value)
            /\ steps' = steps \cup {"cardinality"}
       ELSE UNCHANGED <<failures, steps>>
    /\ pc' = "asserted"
    /\ UNCHANGED <<env, jar, kind, url, requests, res, body, value, target>>
    /\ UNCHANGED helperVars

\* (*JsonApiResponse).To(v): json.Marshal(jar), then json.Unmarshal(b, v)
\* into the caller's structure, whose error is dropped
To ==
    /\ pc = "asserted"
    /\ target' = Projected(target, value)
    /\ failures' = failures \cup Discarded(UnmarshalError(target, value))
    /\ steps' = steps \cup {"project"}
    /\ pc' = "done"
    /\ UNCHANGED <<env, jar, kind, url, requests, res, body, value>>
    /\ UNCHANGED helperVars

Next ==
    \/ BuildUrl
    \/ SendRequest
    \/ CheckStatus
    \/ ReadBody
    \/ Unmarshal
    \/ ResponseAssertions
    \/ To

Spec == Init /\ [][Next]_vars

NextUrl == BuildUrl

SpecUrl == InitUrl /\ [][NextUrl]_vars

(***************************************************************************)
(* Calls of DrupalType's accessors                                         *)
(***************************************************************************)
\* actual.Type.Entity()
TypeEntity ==
    /\ typeAnswer.op = "none"
    /\ \E a \in {Entity(drupalType)} :
           typeAnswer' = [op |-> "Entity", panic |-> a.panic, s |-> a.s]
    /\ UNCHANGED <<clientVars, drupalType, envVars, fsVars>>

\* actual.Type.Bundle()
TypeBundle ==
    /\ typeAnswer.op = "none"
    /\ \E a \in {Bundle(drupalType)} :
           typeAnswer' = [op |-> "Bundle", panic |-> a.panic, s |-> a.s]
    /\ UNCHANGED <<clientVars, drupalType, envVars, fsVars>>

NextType == TypeEntity \/ TypeBundle

SpecType == InitType /\ [][NextType]_vars

(***************************************************************************)
(* Calls of package env's accessors                                        *)
(***************************************************************************)
\* The answer of accessor op, called for variable v with default d
Asked(op, v, d, r) ==
    /\ envAnswer.op = "none"
    /\ envAnswer' = [op |-> op, var |-> v, def |-> d, panic |-> r.panic,
                     val |-> r.val]
    /\ UNCHANGED <<clientVars, typeVars, environ, fsVars>>

EnvBaseUrl ==
    \E r \in {BaseUrl(environ[drupalBaseUrl])} :
        Asked("BaseUrl", drupalBaseUrl, <<>>, r)

EnvTestBasedir ==
    \E r \in {TestBasedir(environ[testBasedir])} :
        Asked("TestBasedir", testBasedir, <<>>, r)

EnvAssetsBaseUrl ==
    \E r \in {AssetsBaseUrl(environ[assetsBaseUrl])} :
        Asked("AssetsBaseUrl", assetsBaseUrl, <<>>, r)

EnvBaseUrlOr ==
    \E d \in StringDefaults :
        \E r \in {BaseUrlOr(environ[drupalBaseUrl], d)} :
            Asked("BaseUrlOr", drupalBaseUrl, d, [panic |-> FALSE, val |-> r])

EnvTestBasedirOr ==
    \E d \in StringDefaults :
        \E r \in {TestBasedirOr(environ[testBasedir], d)} :
            Asked("TestBasedirOr", testBasedir, d, [panic |-> FALSE, val |-> r])

EnvAssetsBaseUrlOr ==
    \E d \in StringDefaults :
        \E r \in {AssetsBaseUrlOr(environ[assetsBaseUrl], d)} :
            Asked("AssetsBaseUrlOr", assetsBaseUrl, d, [panic |-> FALSE, val |-> r])

EnvGetEnvOr ==
    \E v \in EnvNames, d \in StringDefaults :
        \E r \in {GetEnvOr(environ[v], d)} :
            Asked("GetEnvOr", v, d, [panic |-> FALSE, val |-> r])

EnvGetEnvOrInt ==
    \E v \in EnvNames, d \in IntDefaults :
        \E r \in {GetEnvOrInt(environ[v], d)} : Asked("GetEnvOrInt", v, d, r)

EnvGetEnvOrBool ==
    \E v \in EnvNames, d \in BOOLEAN :
        \E r \in {GetEnvOrBool(environ[v], d)} : Asked("GetEnvOrBool", v, d, r)

NextEnv ==
    \/ EnvBaseUrl
    \/ EnvTestBasedir
    \/ EnvAssetsBaseUrl
    \/ EnvBaseUrlOr
    \/ EnvTestBasedirOr
    \/ EnvAssetsBaseUrlOr
    \/ EnvGetEnvOr
    \/ EnvGetEnvOrInt
    \/ EnvGetEnvOrBool

SpecEnv == InitEnv /\ [][NextEnv]_vars

(***************************************************************************)
(* The steps of FindExpectedJson                                           *)
(***************************************************************************)
SeparatorInName(name, searchdirs) == Contains(name, PathSeparator)

\* strings.Contains(name, string(os.PathSeparator)), and the same for each
\* dir of searchdirs
SeparatorInArguments(name, searchdirs) ==
    \/ Contains(name, PathSeparator)
    \/ \E i \in 1..Len(searchdirs) : Contains(searchdirs[i], PathSeparator)

\* The checks of name and of each search directory for a path separator,
\* each ending in logger.Panic()
CheckArguments ==
    /\ find.pc = "call"
    /\ find' = [find EXCEPT !.pc =
                   IF SeparatorInArguments(find.name, find.searchdirs)
                   THEN "panicked" ELSE "checked"]
    /\ UNCHANGED <<clientVars, typeVars, envVars, tree>>

\* basedirs: with search directories the directories the first walk
\* collects, without them "."
CollectBasedirs ==
    /\ find.pc = "checked"
    /\ IF Len(find.searchdirs) > 0
       THEN \E bs \in {CollectFrom(tree, WorkingDir, find.searchdirs)} :
                find' = [find EXCEPT !.pc = "collected", !.basedirs = bs,
                                     !.walks = find.walks + 1]
       ELSE find' = [find EXCEPT !.pc = "collected", !.basedirs = <<WorkingDir>>]
    /\ UNCHANGED <<clientVars, typeVars, envVars, tree>>

\* One round of for _, basedir := range basedirs: the walk of basedir
SearchBasedir ==
    /\ find.pc = "collected"
    /\ find.next <= Len(find.basedirs)
    /\ \E f \in {WalkBasedir(tree, find.basedirs[find.next], find.name,
                               find.expectedJsonFile)} :
           find' = [find EXCEPT !.expectedJsonFile = f, !.next = find.next + 1,
                                !.walks = find.walks + 1]
    /\ UNCHANGED <<clientVars, typeVars, envVars, tree>>

AfterLoopReturns(f) == "returned"

\* if expectedJsonFile == "" { logger.Panic() }; return expectedJsonFile
AfterLoop(f) == IF f.empty THEN "panicked" ELSE "returned"

\* After the loop: logger.Panic() when expectedJsonFile is empty, otherwise
\* return expectedJsonFile
ReturnFile ==
    /\ find.pc = "collected"
    /\ find.next > Len(find.basedirs)
    /\ find' = [find EXCEPT !.pc = AfterLoop(find.expectedJsonFile)]
    /\ UNCHANGED <<clientVars, typeVars, envVars, tree>>

NextFs ==
    \/ CheckArguments
    \/ CollectBasedirs
    \/ SearchBasedir
    \/ ReturnFile

SpecFs == InitFs /\ [][NextFs]_vars

(***************************************************************************)
(* Properties of JsonApiUrl.String(), checked under SpecUrl                *)
(***************************************************************************)
\* Tokens that delimit a part of a URL or that url.Parse or String() rewrite
SpecialTokens == {"/", "?", "#", " ", "%", "%20", "http:"}

Unreserved(s) == \A i \in 1..Len(s) : s[i] \notin SpecialTokens

NoHash(s) == \A i \in 1..Len(s) : s[i] # "#"

\* scheme://host[:port][/path], not ending in a slash
AbsoluteBase(b) ==
    /\ Len(b) >= 4
    /\ b[1] \in SchemeTokens /\ b[2] = "/" /\ b[3] = "/"
    /\ b[4] # "/" /\ b[Len(b)] # "/"
    /\ \A i \in 4..Len(b) : b[i] \notin (SpecialTokens \ {"/"})

StringReturned == kind = "String" /\ pc = "done"

StringEnded == kind = "String" /\ pc \in {"done", "panicked"}

SimpleFilterUrl(d) ==
    d.BaseUrl \o <<"/", "jsonapi", "/">> \o d.DrupalEntity \o <<"/">> \o d.DrupalBundle
        \o <<"?", "filter", "[">> \o d.Filter \o <<"]", "=">> \o d.Value

SimpleFilterDescriptor ==
    /\ jar.BaseUrl # <<>> /\ jar.DrupalEntity # <<>> /\ jar.DrupalBundle # <<>>
    /\ jar.Filter # <<>> /\ jar.RawFilter = <<>>

\* C1 as stated: for every descriptor with non-empty BaseUrl, DrupalEntity,
\* DrupalBundle and Filter and an empty RawFilter, String() returns exactly
\* BaseUrl + "/jsonapi/" + DrupalEntity + "/" + DrupalBundle + "?filter[" +
\* Filter + "]=" + Value.
C1_AsStated ==
    (StringReturned /\ SimpleFilterDescriptor) => url = Str(SimpleFilterUrl(jar))

\* C1: when DRUPAL_BASE_URL is unset, BaseUrl is an absolute URL that does
\* not end in a slash, DrupalEntity and DrupalBundle are made of unreserved
\* characters and Filter and Value hold no "#", String() returns exactly
\* BaseUrl + "/jsonapi/" + DrupalEntity + "/" + DrupalBundle + "?filter[" +
\* Filter + "]=" + Value.
C1_SimpleFilterUrl ==
    (/\ StringEnded /\ SimpleFilterDescriptor
     /\ ~env.set /\ AbsoluteBase(jar.BaseUrl)
     /\ Unreserved(jar.DrupalEntity) /\ Unreserved(jar.DrupalBundle)
     /\ NoHash(jar.Filter) /\ NoHash(jar.Value))
        => url = Str(SimpleFilterUrl(jar))

C1_Witness ==
    /\ StringReturned /\ ~env.set
    /\ jar.BaseUrl = HostH /\ jar.RawFilter = <<>> /\ jar.Value = <<"abc">>
    /\ url.s = <<"http:", "/", "/", "h:1", "/", "jsonapi", "/", "media", "/",
                 "document", "?", "filter", "[", "id", "]", "=", "abc">>

\* What String() returns for the descriptor stripped of its filters
WithoutFilters(d) == [d EXCEPT !.RawFilter = <<>>, !.Filter = <<>>, !.Value = <<>>]

RawFilterResult ==
    /\ ~url.nil
    /\ url.s = StringOf(WithoutFilters(jar), env).result.s \o <<"?">> \o jar.RawFilter
    /\ \A f \in UrlDescriptors : 
          (WithoutFilters(f) = WithoutFilters(jar) /\ f.RawFilter = jar.RawFilter)
              => StringOf(f, env).result = url

C3_FilterSelection ==
    StringReturned =>
        /\ (jar.RawFilter = <<>> /\ jar.Filter = <<>>) => Count(url.s, "?") = 0
        /\ jar.RawFilter # <<>> =>
              /\ Contains(url.s, <<"?", jar.RawFilter[1]>>)
              /\ ~Contains(url.s, <<"?", "filter", "[">>)
        /\ (jar.RawFilter = <<>> /\ jar.Filter # <<>>) =>
              Contains(url.s, <<"?", "filter", "[">> \o jar.Filter \o <<"]", "=">>)

C3_Witness ==
    /\ StringReturned /\ jar.RawFilter = <<>> /\ jar.Filter = <<>>
    /\ jar.Value = <<"abc">> /\ HasSuffix(url.s, <<"media", "/", "document">>)

\* The base String() joins: DRUPAL_BASE_URL when it is set, BaseUrl otherwise
EffectiveBase == IF env.set THEN env.val ELSE jar.BaseUrl

\* C4 as stated: the returned URL never contains "//jsonapi", also when the
\* base ends in several slashes.
C4_AsStated == StringReturned => ~Contains(url.s, <<"/", "/", "jsonapi">>)

\* C4: for every base that ends in at most one slash the returned URL does
\* not contain "//jsonapi": one trailing slash is removed before joining.
C4_OneTrailingSlash ==
    (StringReturned /\ ~HasSuffix(EffectiveBase, <<"/", "/">>))
        => ~Contains(url.s, <<"/", "/", "jsonapi">>)

C4_Witness ==
    /\ StringReturned /\ ~env.set /\ jar.BaseUrl = HostH \o <<"/">>
    /\ HasPrefix(url.s, HostH \o <<"/", "jsonapi", "/">>)

(***************************************************************************)
(* Properties of Get, GetSingle and GetResourceWithBasicAuth, under Spec   *)
(***************************************************************************)
RequiredFieldEmpty ==
    jar.BaseUrl = <<>> \/ jar.DrupalEntity = <<>> \/ jar.DrupalBundle = <<>>

\* C5: if BaseUrl, DrupalEntity or DrupalBundle is empty, String() aborts:
\* no URL string is returned and Get and GetSingle issue no HTTP request.
C5_RequiredFieldsAbort ==
    (kind \in {"Get", "GetSingle"} /\ RequiredFieldEmpty /\ pc # "call")
        => (url.nil /\ requests = <<>>)

NonBlank(s) == \E i \in 1..Len(s) : s[i] \notin Whitespace

\* C6: every request carries a Basic Authorization header if and only if the
\* username holds a character that is not white space, and then it carries
\* the username and the password as supplied, untrimmed.
C6_BasicAuth ==
    \A i \in 1..Len(requests) :
        requests[i].auth = IF NonBlank(jar.Username)
                           THEN [present |-> TRUE, user |-> jar.Username,
                                 pass |-> jar.Password]
                           ELSE [present |-> FALSE, user |-> <<>>, pass |-> <<>>]

C6_Witness ==
    /\ Len(requests) = 1 /\ jar.Username = <<" ", "admin">>
    /\ requests[1].auth.present /\ requests[1].auth.user = <<" ", "admin">>
    /\ requests[1].auth.pass = <<"moo">>

\* C7: when the server answers with a status other than 200 the body is
\* neither read nor decoded, no cardinality assertion runs and nothing is
\* projected into the caller's target.
C7_Non200StopsTheCall ==
    (~RequiredFieldEmpty /\ ~res.nil /\ res.status # StatusOK)
        => steps \cap {"read", "decode", "cardinality", "project"} = {}

\* C8: when the transport returns an error and no response, the call ends in
\* a reported failure and does not go on to use the absent response.
C8_TransportErrorStopsTheCall ==
    (~RequiredFieldEmpty /\ "Do" \in steps /\ res.nil)
        => ("transport" \in failures /\ "StatusCode" \notin steps /\ pc # "panicked")

DataOfBody == body.b.data

DecodableBody ==
    /\ ~body.nil /\ body.b.syntax = "valid" /\ body.b.top = "object" /\ body.b.hasData
    /\ \/ DataOfBody.t = "object"
       \/ /\ DataOfBody.t = "array"
          /\ \A i \in 1..Len(DataOfBody.elems) : DataOfBody.elems[i].t = "object"

\* C9: a "data" object decodes to the one-element sequence holding it, a
\* "data" array of N objects to those N objects in the same order, N = 0 to
\* an empty sequence, in each case without an error.
C9_DataNormalised ==
    ("decode" \in steps /\ DecodableBody) =>
        /\ "decode" \notin failures /\ pc # "panicked" /\ ~value.nil
        /\ DataOfBody.t = "object" => value.items = <<DataOfBody>>
        /\ DataOfBody.t = "array" =>
              /\ Len(value.items) = Len(DataOfBody.elems)
              /\ \A i \in 1..Len(DataOfBody.elems) : value.items[i] = DataOfBody.elems[i]

C9_Witness ==
    /\ pc = "decoded" /\ body.b.hasData /\ body.b.data.t = "array"
    /\ value.items = <<Obj("o2"), Obj("o1")>> /\ "decode" \notin failures

\* C10: every payload whose "data" is not an object or an array of objects
\* makes the decoder return an error, and never crashes it.
C10_UndecodableIsAnError ==
    (~RequiredFieldEmpty /\ "decode" \in steps /\ "read" \notin failures /\ ~DecodableBody) => ("decode" \in failures /\ pc # "panicked")

\* The one object a body carries in "data": the object itself, or the only
\* element of a one-element array
SingleElement(b) == IF b.data.t = "object" THEN b.data ELSE b.data.elems[1]

\* What UnmarshalSingleResponse records on T: the decoding error and the
\* cardinality
SingleResponseFailures == failures \cap {"decode", "cardinality"}

\* C11: once UnmarshalSingleResponse has decoded the body into the fresh
\* envelope and run its assertion, it has failed the test if and only if the
\* envelope's Data does not hold exactly one element; when Data holds exactly
\* one element no failure is recorded and the envelope returned holds that
\* element of the body.
C11_ExactlyOne ==
    (kind = "GetSingle" /\ "cardinality" \in steps) =>
        /\ (SingleResponseFailures # {}) <=> (Len(value.items) # 1)
        /\ ("cardinality" \in failures) <=> (Len(value.items) # 1)
        /\ Len(value.items) = 1 =>
              (DecodableBody /\ value.items = <<SingleElement(body.b)>>)

C11_Witness ==
    /\ kind = "GetSingle" /\ pc = "asserted" /\ "cardinality" \in steps
    /\ body.b.data = Arr(<<Obj("o2")>>) /\ value.items = <<Obj("o2")>>
    /\ SingleResponseFailures = {}

\* A call that decoded a valid body and projected the envelope into a typed
\* structure
ProjectedIntoTyped ==
    /\ kind \in {"Get", "GetSingle"} /\ pc = "done" /\ "project" \in steps
    /\ target.kind = "typed" /\ DecodableBody
    /\ ~RequiredFieldEmpty /\ res.status = StatusOK

C13_GetExpectsOneResult ==
    (/\ kind = "Get" /\ pc \in {"asserted", "done"} /\ DecodableBody
     /\ Len(value.items) # 1)
        => failures # {}

(***************************************************************************)
(* Properties of DrupalType, checked under SpecType                        *)
(***************************************************************************)
\* The decompositions of the label as X, "--", Y with X and Y free of "--"
Decompositions(t) ==
    {i \in 0..(Len(t) - 2) :
        /\ SubSeq(t, i + 1, i + 2) = Separator
        /\ ~Contains(SubSeq(t, 1, i), Separator)
        /\ ~Contains(SubSeq(t, i + 3, Len(t)), Separator)}

EntityPart(t, i) == SubSeq(t, 1, i)

BundlePart(t, i) == SubSeq(t, i + 3, Len(t))

AccessorAnswers(i) ==
    /\ typeAnswer.op = "Entity" =>
          (~typeAnswer.panic /\ typeAnswer.s = EntityPart(drupalType, i))
    /\ typeAnswer.op = "Bundle" =>
          (~typeAnswer.panic /\ typeAnswer.s = BundlePart(drupalType, i))

\* C14 as stated: for every way of reading the label as X--Y with X and Y
\* free of "--", Entity() returns X and Bundle() returns Y.
C14_AsStated == \A i \in Decompositions(drupalType) : AccessorAnswers(i)

\* C14: for every way of reading the label as X--Y with X and Y free of "--"
\* and X not ending in a hyphen, Entity() returns X and Bundle() returns Y.
C14_EntityAndBundle ==
    \A i \in Decompositions(drupalType) :
        ~HasSuffix(EntityPart(drupalType, i), <<"-">>) => AccessorAnswers(i)

C14_Witness ==
    /\ drupalType = <<"node", "-", "-", "page">>
    /\ typeAnswer = [op |-> "Bundle", panic |-> FALSE, s |-> <<"page">>]

\* C15: for a label that holds no "--", the empty label included, Bundle()
\* ends in an index-out-of-range panic and returns no string.
C15_BundleOutOfRange ==
    (typeAnswer.op = "Bundle" /\ ~Contains(drupalType, Separator))
        => typeAnswer.panic

C15_Witness ==
    /\ drupalType = <<"node">> /\ typeAnswer.op = "Bundle" /\ typeAnswer.panic

(***************************************************************************)
(* Properties of package env, checked under SpecEnv                        *)
(***************************************************************************)
\* What the process environment holds for the variable the accessor read
Looked == environ[envAnswer.var]

OrDefaultAccessors == {"GetEnvOr", "BaseUrlOr", "TestBasedirOr", "AssetsBaseUrlOr"}

RequiredAccessors == {"BaseUrl", "TestBasedir", "AssetsBaseUrl"}

\* The variable each accessor with a fixed variable reads
FixedVariable(op) ==
    IF op \in {"BaseUrl", "BaseUrlOr"} THEN drupalBaseUrl
    ELSE IF op \in {"TestBasedir", "TestBasedirOr"} THEN testBasedir
    ELSE assetsBaseUrl

\* C16: GetEnvOr(var, def) returns def when the variable is unset and the
\* variable's value when it is set, the empty value included; BaseUrlOr,
\* TestBasedirOr and AssetsBaseUrlOr do the same for DRUPAL_BASE_URL,
\* DRUPAL_TEST_BASEDIR and BASE_ASSETS_URL.
C16_GetEnvOr ==
    envAnswer.op \in OrDefaultAccessors =>
        /\ ~envAnswer.panic
        /\ envAnswer.op # "GetEnvOr" => envAnswer.var = FixedVariable(envAnswer.op)
        /\ ~Looked.set => envAnswer.val = envAnswer.def
        /\ Looked.set => envAnswer.val = Looked.val

C16_Witness ==
    /\ envAnswer.op = "TestBasedirOr" /\ environ[testBasedir] = SetTo(<<>>)
    /\ environ[drupalBaseUrl] = SetTo(<<"yes">>)
    /\ envAnswer.def = <<"fallback">> /\ envAnswer.val = <<>>

\* C17: BaseUrl(), TestBasedir() and AssetsBaseUrl() panic if and only if
\* their variable is unset; when it is set, even to the empty value, they
\* return its value.
C17_RequiredAccessors ==
    envAnswer.op \in RequiredAccessors =>
        /\ envAnswer.var = FixedVariable(envAnswer.op)
        /\ envAnswer.panic <=> ~Looked.set
        /\ Looked.set => envAnswer.val = Looked.val

C17_Witness ==
    /\ envAnswer.op = "AssetsBaseUrl" /\ environ[assetsBaseUrl] = SetTo(<<>>)
    /\ environ[drupalBaseUrl] = Unset
    /\ ~envAnswer.panic /\ envAnswer.val = <<>>

\* Does the value read parse as the type the accessor answers
Parses ==
    IF envAnswer.op = "GetEnvOrInt" THEN ~Atoi(Looked.val).err
    ELSE ~ParseBool(Looked.val).err

\* C18: GetEnvOrInt and GetEnvOrBool return the default when the variable
\* is unset, the parsed value when it is set and parses, and panic when it is
\* set and does not parse, the empty value included; the default is never
\* the answer for a set variable that does not parse.
C18_TypedAccessors ==
    envAnswer.op \in {"GetEnvOrInt", "GetEnvOrBool"} =>
        /\ ~Looked.set => (~envAnswer.panic /\ envAnswer.val = envAnswer.def)
        /\ (Looked.set /\ Parses) =>
              /\ ~envAnswer.panic
              /\ envAnswer.op = "GetEnvOrInt" => envAnswer.val = Atoi(Looked.val).n
              /\ envAnswer.op = "GetEnvOrBool" => envAnswer.val = ParseBool(Looked.val).b
        /\ (Looked.set /\ ~Parses) => envAnswer.panic
        /\ Looked.set =>
              /\ Looked.val = <<>> => envAnswer.panic
              /\ (Looked.val = <<"-", "1", "0">> /\ envAnswer.op = "GetEnvOrInt")
                    => envAnswer.val = 0 - 10
              /\ (Looked.val = <<"true">> /\ envAnswer.op = "GetEnvOrInt")
                    => envAnswer.panic
              /\ (Looked.val = <<"1">> /\ envAnswer.op = "GetEnvOrBool")
                    => envAnswer.val = TRUE

C18_Witness ==
    /\ envAnswer.op = "GetEnvOrInt" /\ envAnswer.var = testBasedir
    /\ environ[testBasedir] = SetTo(<<>>) /\ envAnswer.def = 42
    /\ envAnswer.panic

(***************************************************************************)
(* Properties of FindExpectedJson, checked under SpecFs                    *)
(***************************************************************************)
Rank(n) == CHOOSE i \in 1..Len(NameOrder) : NameOrder[i] = n

\* Is p met before q by a walk of the working directory: a directory comes
\* before what it holds, and the entries of a directory come sorted by name
Precedes(p, q) ==
    \/ Len(p) < Len(q) /\ SubSeq(q, 1, Len(p)) = p
    \/ \E i \in 1..Len(p) :
          /\ i <= Len(q)
          /\ SubSeq(p, 1, i - 1) = SubSeq(q, 1, i - 1)
          /\ Rank(p[i]) < Rank(q[i])

Named(names) == {names[i] : i \in 1..Len(names)}

\* The entries the search covers: all of them without search directories,
\* otherwise those in or under a directory whose path holds a search directory
Searched ==
    IF find.searchdirs = <<>> THEN tree.dirs \cup tree.files
    ELSE {q \in tree.dirs \cup tree.files :
            \E k \in 0..Len(q) :
                /\ IsDir(tree, SubSeq(q, 1, k))
                /\ Named(PathElements(SubSeq(q, 1, k))) \cap Named(find.searchdirs) # {}}

Matches == {q \in Searched : q[Len(q)] = find.name}

Returns == find.pc = "returned"

\* C19: FindExpectedJson returns the first match: of all the entries named
\* name under the working directory, or under the directories matching the
\* search directories, the one met first in walk order, also when several of
\* those directories hold a match.
C19_FirstMatch ==
    Returns =>
        /\ ~find.expectedJsonFile.empty
        /\ find.expectedJsonFile.path \in Matches
        /\ \A m \in Matches \ {find.expectedJsonFile.path} :
              Precedes(find.expectedJsonFile.path, m)

\* The names of the directories above an entry
Ancestors(p) == {p[i] : i \in 1..(Len(p) - 1)}

UnderSearchDir ==
    Ancestors(find.expectedJsonFile.path) \cap Named(find.searchdirs) # {}

HoldsSeparator(name) == \E i \in 1..Len(name) : name[i] = "/"

\* C21: when name or one of the search directories holds a path separator,
\* FindExpectedJson panics before it walks any directory.
C21_SeparatorPanics ==
    (/\ find.pc \notin {"none", "call"}
     /\ \/ HoldsSeparator(find.name)
        \/ \E d \in Named(find.searchdirs) : HoldsSeparator(d))
        => (find.pc = "panicked" /\ find.walks = 0 /\ find.basedirs = <<>>)

C21_Witness ==
    /\ find.pc = "panicked" /\ find.walks = 0
    /\ find.name = <<"f.json">> /\ find.searchdirs = <<<<"foo", "/", "bar">>>>
    /\ <<<<"f.json">>>> \in tree.files

\* FindExpectedJson has ended, with a path or with a panic
Ended == find.pc \in {"returned", "panicked"}

\* C22: FindExpectedJson never returns the empty string; when no entry
\* named name is found, also with search directories that no directory
\* matches, it ends in a panic.
C22_NeverEmpty ==
    /\ Returns => ~find.expectedJsonFile.empty
    /\ (Ended /\ Matches = {}) => find.pc = "panicked"

C22_Witness ==
    /\ find.pc = "panicked" /\ find.walks = 1 /\ find.basedirs = <<>>
    /\ find.name = <<"f.json">> /\ find.searchdirs = <<<<"x">>>>
    /\ <<<<"f.json">>>> \in tree.files

(***************************************************************************)
(* Further properties of Get and GetSingle, checked under Spec             *)
(***************************************************************************)
\* The server answered 200 to a call on a complete descriptor and the body
\* was read
AnsweredAndRead ==
    /\ kind \in {"Get", "GetSingle"} /\ ~RequiredFieldEmpty
    /\ ~res.nil /\ res.status = StatusOK /\ "read" \in steps /\ "read" \notin failures

\* C23: a failure of the decoding stage ends the call: after a decoding
\* error the cardinality callback is not invoked and nothing is projected,
\* and after a failed cardinality assertion nothing is projected into the
\* caller's target.
C23_DecodeErrorsAreImmediate ==
    AnsweredAndRead =>
        /\ "decode" \in failures => steps \cap {"cardinality", "project"} = {}
        /\ "cardinality" \in failures => "project" \notin steps


\* A call of Get or GetSingle that has come back from httpClient.Do, or has
\* ended
CallEnded == kind \in {"Get", "GetSingle"} /\ pc \in {"done", "panicked"}

\* The URL String() returned names a scheme, so the client sends the request
Sendable == ~url.nil /\ SplitScheme(url.s).scheme # ""

BaseUrls == {d.BaseUrl : d \in UrlDescriptors}

\* String() on the descriptor that differs from jar in BaseUrl only
WithBaseUrl(b) == StringOf([jar EXCEPT !.BaseUrl = b], env)

\* C25: when DRUPAL_BASE_URL is set, String() builds the URL on the value of
\* the variable and not on BaseUrl: BaseUrl decides only whether the failure
\* of the non-emptiness assertion is recorded, and every descriptor that
\* differs in BaseUrl alone yields the same URL, the same panic and the same
\* other failures.
C25_EnvOverridesBaseUrl ==
    (kind = "String" /\ env.set /\ pc # "call") =>
        /\ "BaseUrl" \in failures <=> jar.BaseUrl = <<>>
        /\ StringReturned =>
               HasPrefix(url.s, StripTrailingSlash(env.val) \o <<"/", "jsonapi", "/">>)
        /\ \A b \in BaseUrls :
               \E r \in {WithBaseUrl(b)} :
                   /\ r.result = url
                   /\ r.panic = (pc = "panicked")
                   /\ r.failures \ {"BaseUrl"} = failures \ {"BaseUrl"}

\* String() has returned a URL on the environment's host for a descriptor
\* whose BaseUrl names another host
C25_Witness ==
    /\ kind = "String"
    /\ env = SetTo(HostE)
    /\ jar.BaseUrl = HostH
    /\ StringReturned
    /\ HasPrefix(url.s, HostE)
    /\ ~Contains(url.s, <<"h:1">>)

(***************************************************************************)
(* A test that calls Get or GetSingle several times on one JsonApiUrl,     *)
(* changing its fields between the calls                                   *)
(***************************************************************************)
\* The most calls a test makes on its descriptor
MaxCalls == 2

\* The bundles the test's server has handlers for
Bundles == {<<"withauth">>, <<"noauth">>}

\* The descriptor the test builds, its result being a *JsonApiResponse
InitCalls ==
    /\ env = Unset
    /\ jar \in [BaseUrl : {HostH}, DrupalEntity : {<<"request">>},
                DrupalBundle : Bundles, Filter : {<<"name">>}, Value : {<<"moo">>},
                RawFilter : {<<>>}, Username : Usernames, Password : Passwords]
    /\ kind \in {"Get", "GetSingle"}
    /\ target = NewTarget("envelope")
    /\ Fresh
    /\ NoHelper

\* The call has returned; the test assigns Username, Password and
\* DrupalBundle and calls again on the same descriptor with the same result.
\* The call starts with its own res, body and &JsonApiResponse{}, and
\* failures goes back to what the call in progress has recorded: no statement
\* reads what earlier calls recorded on T.  The requests the server has seen
\* stay in its log.
NextCall ==
    /\ pc = "done"
    /\ Len(requests) < MaxCalls
    /\ \E u \in Usernames, p \in Passwords, b \in Bundles :
           jar' = [jar EXCEPT !.Username = u, !.Password = p, !.DrupalBundle = b]
    /\ kind' \in {"Get", "GetSingle"}
    /\ pc' = "call"
    /\ url' = NoString
    /\ res' = NoResponse
    /\ body' = NoBody
    /\ value' = NilData
    /\ steps' = {}
    /\ failures' = {}
    /\ UNCHANGED <<env, requests, target>>
    /\ UNCHANGED helperVars

NextCalls ==
    \/ Next
    \/ NextCall

SpecCalls == InitCalls /\ [][NextCalls]_vars

\* The header the descriptor's present Username and Password call for
HeaderOfJar ==
    IF NonBlank(jar.Username) THEN BasicAuth(jar.Username, jar.Password) ELSE NoAuth

\* C26: in every step of a sequence of calls on one descriptor the log of
\* requests only grows, and the Authorization header of each request added is
\* decided by the Username and Password the descriptor holds in that call:
\* the header with exactly these two when the username is not blank, no
\* header when it is blank, whatever earlier calls sent.
C26_HeaderFollowsCredentials ==
    [][/\ Len(requests') >= Len(requests)
       /\ SubSeq(requests', 1, Len(requests)) = requests
       /\ \A i \in (Len(requests) + 1)..Len(requests') :
              requests'[i].auth = HeaderOfJar]_vars

\* A call with credentials was followed by a call on another bundle with a
\* blank username and the password still set: the second request carries no
\* header
C26_Witness ==
    /\ Len(requests) = 2
    /\ requests[1].auth = BasicAuth(<<"admin">>, <<"moo">>)
    /\ requests[2].auth = NoAuth
    /\ requests[1].url # requests[2].url
    /\ jar.Username = <<" ", " ">>
    /\ jar.Password = <<"moo">>
    /\ pc = "done"

(***************************************************************************)
(* Get and GetSingle compared, checked under Spec                          *)
(***************************************************************************)
\* The elements a decodable body carries under "data"
ElementsOfBody == IF DataOfBody.t = "object" THEN <<DataOfBody>> ELSE DataOfBody.elems

\* What a call records on T apart from the cardinality and a failed read, as
\* the descriptor and the server's answer decide it
RecordedWhateverTheCall ==
    (IF "String" \in steps THEN RequiredFieldFailures(jar) ELSE {})
        \cup (IF "Do" \in steps /\ res.nil THEN {"transport"} ELSE {})
        \cup (IF "StatusCode" \in steps /\ ~res.nil /\ res.status # StatusOK
              THEN {"status"} ELSE {})
        \cup (IF "decode" \in steps /\ ~DecodableBody /\ pc # "panicked"
              THEN {"decode"} ELSE {})

\* The call has crashed: on the nil response, or in the decoder
CrashedWhateverTheCall ==
    \/ "StatusCode" \in steps /\ res.nil
    \/ /\ "decode" \in steps /\ ~DecodableBody
       /\ body.b.syntax = "valid" /\ body.b.top = "object" /\ body.b.hasData
       /\ DataOfBody.t = "array"

Envelopes ==
    {NilData} \cup {Slice(a) : a \in ArraysUpTo({Obj("o0"), Obj("o1")}, MaxData)}

\* UnmarshalResponse(t, body, res, value, nil) is about to run on a body that
\* was read from an answer
InitDecode ==
    /\ env = Unset
    /\ jar = [BaseUrl |-> <<>>, DrupalEntity |-> <<>>, DrupalBundle |-> <<>>,
              Filter |-> <<>>, Value |-> <<>>, RawFilter |-> <<>>,
              Username |-> <<>>, Password |-> <<>>]
    /\ kind = "UnmarshalResponse"
    /\ pc = "read"
    /\ url = NoString
    /\ requests = <<>>
    /\ \E b \in Bodies :
           /\ res = [nil |-> FALSE, status |-> StatusOK, body |-> b]
           /\ body = [nil |-> FALSE, b |-> b]
    /\ failures = {}
    /\ value \in Envelopes
    /\ target = NewTarget("typed")
    /\ steps = {}
    /\ NoHelper

NextDecode ==
    \/ Unmarshal
    \/ ResponseAssertions

SpecDecode == InitDecode /\ [][NextDecode]_vars

\* C28: in every decoding step, a decoder that returns an error leaves the
\* envelope's Data as it was, and a decoder that succeeds leaves in Data the
\* elements of the new body and nothing else, whatever Data held before.
C28_ErrorKeepsSuccessReplaces ==
    [][(kind = "UnmarshalResponse" /\ pc = "read") =>
           /\ "decode" \in failures' => value' = value
           /\ ("decode" \notin failures' /\ pc' = "decoded") =>
                  (DecodableBody /\ value' = Slice(ElementsOfBody))]_vars

\* The decoder has refused a body without "data" and the envelope still holds
\* the two elements it held, neither of which any body carries
C28_Witness ==
    /\ kind = "UnmarshalResponse"
    /\ pc = "decoded"
    /\ body.b = WithoutData
    /\ "decode" \in failures
    /\ value = Slice(<<Obj("o0"), Obj("o0")>>)

(***************************************************************************)
(* What To(v) leaves in the caller's target, checked under Spec            *)
(***************************************************************************)
\* C29: no step of a call changes the target's field for the top-level key
\* "jsonapi": the envelope holds the "data" elements only, so To(v) writes
\* the field for "data" and leaves the other at the value it had, zero or
\* the caller's, also when the body carried a "jsonapi" block.
C29_OnlyDataReachesTheTarget ==
    [][target'.jsonapi = target.jsonapi]_vars

\* To(v) has filled the "data" field of a typed target from a body that
\* carries a "jsonapi" block, and the field for that block still holds what
\* the caller had put there
C29_Witness ==
    /\ kind \in {"Get", "GetSingle"}
    /\ pc = "done"
    /\ "project" \in steps
    /\ body.b = WithData(Obj("o1"), TRUE)
    /\ target = [FilledTarget EXCEPT !.data = Slice(<<Obj("o1")>>)]

\* C30: the step in which To(v) runs ends the call normally and records
\* nothing on T when json.Unmarshal returns an error for the target: the
\* failures are those recorded before the step.
C30_ToDropsTheError ==
    [][(/\ kind \in {"Get", "GetSingle"}
        /\ pc = "asserted"
        /\ pc' # "asserted"
        /\ UnmarshalError(target, value))
           => (pc' = "done" /\ failures' = failures)]_vars

\* Get has returned without a failure although the two decoded elements
\* could not be stored in the target, which is left empty
C30_Witness ==
    /\ kind = "Get"
    /\ pc = "done"
    /\ "project" \in steps
    /\ value = Slice(<<Obj("o1"), Obj("o2")>>)
    /\ target = NewTarget("mistyped")
    /\ UnmarshalError(target, value)
    /\ failures = {}

============================================================================
